---- MODULE Spec2Model ----
(***************************************************************************)
(* Model of two_qubit_tomography_xps.py: the safe_click UI actuator, the   *)
(* load_combinations table parser, the artifact naming of measurement()    *)
(* and the per-combination sequencing loop of measurement().               *)
(*                                                                         *)
(* Time is counted in ticks of 0.1 s: sleep(1) is 10 ticks, the 5 s        *)
(* ceiling of safe_click is 50 ticks.  Strings are sequences of            *)
(* one-character strings.                                                  *)
(***************************************************************************)
EXTENDS Integers, Sequences, FiniteSets, TLC

\* ------------------------------------------------------------------ bounds
\* longest duration, in ticks, of one pag.locateOnScreen call
LocateMax == 20
\* largest retry budget a safe_click call is given
MaxRetries == 4
\* largest number of parsed combinations in a sweep of the sequencer
MaxCombos == 3
\* acquisition time per point (iteration_time), in ticks
IterationTime == 6

\* longest table file, in characters (line ends included)
MaxFileLen == 6
\* largest stage count load_combinations is called with
MaxStages == 2
\* most combinations of a table whose names are compared with each other
MaxTable == 3
\* most combinations of a table whose names are computed one by one
MaxOrdinal == 1000

\* --------------------------------------------------------- program constants
\* safe_click(retries=3, delay=1, post_confirm_timeout=3)
DefaultRetries == 3
Delay == 10
DefaultPostTimeout == 30
\* post_confirm_timeout=5 of the Start and Stop clicks
TogglePostTimeout == 50
\* max_mouse_tries = 3
max_mouse_tries == 3
\* time() - start_time > 5
Ceiling == 50
\* abs(before - after) > 5
Tolerance == 5
\* sleeps inside one click: moveTo(duration=0.2), sleep(0.1), sleep(0.2)
ClickTicks == 5
\* the part of them before pag.click(): moveTo(duration=0.2), sleep(0.1)
PreClickTicks == 3
\* sleep(0.2) between two polls of the post-condition template
PostPoll == 2
\* measurement(): exactly 4 stages
RequiredStages == 4
\* timeout = 15 of the save-dialog poll, and its sleep(0.5)
DialogTimeout == 150
DialogPoll == 5
\* wait_while_running = 0.3
wait_while_running == 3

VARIABLES
    \* ---- measurement()
    pc,            \* position of measurement()
    stagesLen,     \* len(session.stages)
    hwInit,        \* initialize_groups / home_groups were called
    n,             \* len(combos)
    idx,           \* loop index of enumerate(combos, 1)
    wait_t,        \* time() - t0 / time() - t_measure inside the waits of measurement
    app,           \* the external application: "Idle" or "Collecting"
    moveLog,       \* indices whose combination move was issued
    moveFailed,    \* indices whose move_motors returned False
    uiFor,         \* indices for which a UI action was performed
    zeroIssued,    \* session.move_motors(0, 0, 0, 0) was issued
    fatalAt,       \* index at which the loop was aborted, 0 if none
    uqd_win,       \* the application window: "none", "active" or "missing"
    events,        \* what was observed or done, as pairs <<kind, idx>>
    dwellTicks,    \* time slept in the dwell loop of the current combination
    main_pc,       \* the entry point: "measurement", "closed" or "crashed"
    \* ---- safe_click()
    sc_pc,         \* position of safe_click
    sc_target,     \* image_path: "tag", "start" or "stop"
    sc_post,       \* post_confirm_image: "none", "start" or "stop"
    sc_ptimeout,   \* post_confirm_timeout
    sc_retries,    \* retries
    attempt,       \* loop variable of safe_click
    mouse_failures,
    elapsed,       \* time() - start_time
    t0,            \* elapsed at the start of the post-condition poll
    sc_result,     \* "none", "True", "False", or the exception that leaves the call
    after,         \* pointer position after the last click, relative to before
    clicks,        \* clicks performed in this call
    postSeenAt,    \* time() - t0 at the poll that located the post template, -1 if none
    locates,       \* searches of the target template in this call
    lastOut,       \* outcome of the last library call of this call
    allMiss,       \* every attempt so far ended with the target not found
    responsive,    \* the application reacts to every undisturbed click on a control
    \* ---- load_combinations()
    lines,         \* the lines of the table file
    n_stages,
    lineNo,        \* next line of the file
    combos,        \* the list being built
    \* ---- artifact naming
    table,         \* labels of the parsed combinations
    nameIdx,       \* idx of the naming loop
    names,         \* filename of every combination named so far
    label,         \* label of the combination being named
    filename       \* its filename

measVars == <<pc, stagesLen, hwInit, n, idx, wait_t, moveLog, moveFailed, zeroIssued, fatalAt>>
clickVars == <<sc_pc, sc_target, sc_post, sc_ptimeout, sc_retries, attempt,
               mouse_failures, elapsed, t0, sc_result, after, clicks,
               postSeenAt>>
loadVars == <<lines, n_stages, lineNo, combos>>
nameVars == <<table, nameIdx, names, label, filename>>
measObs == <<uqd_win, events, dwellTicks, main_pc>>
clickObs == <<locates, lastOut, allMiss>>
vars == <<measVars, app, uiFor, clickVars, loadVars, nameVars, measObs,
          clickObs, responsive>>

Abs(x) == IF x < 0 THEN -x ELSE x

\* durations one pag.locateOnScreen call can take
LocateDur == {1, LocateMax}
\* pointer displacements per axis between before and after
Disp == {0, Tolerance, Tolerance + 1}

\* ===================================================================
\* The external application and the screen
\* ===================================================================
\* The toggle flips on every click delivered to its Start/Stop control.
Flip(a) == IF a = "Idle" THEN "Collecting" ELSE "Idle"

\* A template can be matched only when its control is on screen: Start in
\* Idle, Stop in Collecting; the file tag is always on screen.
Visible(img, a) ==
    CASE img = "tag" -> TRUE
      [] img = "start" -> a = "Idle"
      [] img = "stop" -> a = "Collecting"
      [] OTHER -> FALSE

\* effect of one click at the target on the application
Clicked(img, a, delivered) ==
    IF delivered /\ img \in {"start", "stop"} THEN Flip(a) ELSE a

\* ===================================================================
\* safe_click
\* ===================================================================
\* abs(before[0] - after[0]) > 5 or abs(before[1] - after[1]) > 5
InterferedX(b, a) == Abs(b[1] - a[1]) > Tolerance
Interfered(b, a) ==
    Abs(b[1] - a[1]) > Tolerance \/ Abs(b[2] - a[2]) > Tolerance

\* `for attempt in range(1, retries + 1)`: the next value of the loop variable
SameAttempt(a) == a
NextAttempt(a) == a + 1

\* the three ways measurement() calls safe_click
CallShapes ==
    { [target |-> "tag", post |-> "none", ptimeout |-> DefaultPostTimeout],
      [target |-> "start", post |-> "stop", ptimeout |-> TogglePostTimeout],
      [target |-> "stop", post |-> "start", ptimeout |-> TogglePostTimeout] }

ClickIdle ==
    /\ sc_pc = "none" /\ sc_target = "none" /\ sc_post = "none"
    /\ sc_ptimeout = 0 /\ sc_retries = 0 /\ attempt = 0
    /\ mouse_failures = 0 /\ elapsed = 0 /\ t0 = 0 /\ sc_result = "none"
    /\ after = <<0, 0>> /\ clicks = 0 /\ postSeenAt = -1

\* the call itself: parameters bound, nothing executed yet
CallSafeClick(shape, r) ==
    /\ sc_pc' = "entry"
    /\ sc_target' = shape.target
    /\ sc_post' = shape.post
    /\ sc_ptimeout' = shape.ptimeout
    /\ sc_retries' = r
    /\ attempt' = 0 /\ mouse_failures' = 0 /\ elapsed' = 0 /\ t0' = 0
    /\ sc_result' = "none" /\ after' = <<0, 0>> /\ clicks' = 0
    /\ postSeenAt' = -1
    /\ locates' = 0 /\ lastOut' = "none" /\ allMiss' = TRUE

\* a UI action (template search, click, keystroke) is recorded for idx
UIAction == uiFor' = uiFor \cup {idx}

\* lines 56-63: the image file is checked, the counters are initialised
SC_Entry ==
    /\ sc_pc = "entry"
    /\ \E exists \in BOOLEAN :
         IF exists
         THEN /\ sc_pc' = "head" /\ attempt' = 1
              /\ mouse_failures' = 0 /\ elapsed' = 0
              /\ UNCHANGED sc_result
         ELSE /\ sc_pc' = "done" /\ sc_result' = "False"
              /\ UNCHANGED <<attempt, mouse_failures, elapsed>>
    /\ UNCHANGED <<sc_target, sc_post, sc_ptimeout, sc_retries, t0, after,
                   clicks, postSeenAt>>
    /\ UNCHANGED <<measVars, app, uiFor, loadVars, nameVars>>
    /\ UNCHANGED <<measObs, clickObs>>
    /\ UNCHANGED responsive

\* line 65: `for attempt in range(1, retries + 1)` is over
ExhaustedLate(a, r) == a > r + 1
Exhausted(a, r) == a > r

\* line 109: `except Exception` catches whatever the try block raises
CaughtNone(e) == FALSE
Caught(e) == TRUE

\* line 101: `if pag.locateOnScreen(post_confirm_image): return True`
PostAssumed(out) == out # "exception"
PostConfirmed(out) == out = "box"

\* lines 65-67 and 113-114: loop head, wall-clock ceiling, loop exhaustion
SC_Head ==
    /\ sc_pc = "head"
    /\ IF Exhausted(attempt, sc_retries)
       THEN sc_pc' = "done" /\ sc_result' = "False"
       ELSE IF elapsed > Ceiling
            THEN sc_pc' = "done" /\ sc_result' = "MouseInterferenceError"
            ELSE sc_pc' = "locate" /\ UNCHANGED sc_result
    /\ UNCHANGED <<sc_target, sc_post, sc_ptimeout, sc_retries, attempt,
                   mouse_failures, elapsed, t0, after, clicks, postSeenAt>>
    /\ UNCHANGED <<measVars, app, uiFor, loadVars, nameVars>>
    /\ UNCHANGED <<measObs, clickObs>>
    /\ UNCHANGED responsive

\* lines 70-74 (and 109-111 when locateOnScreen raises)
SC_Locate ==
    /\ sc_pc = "locate"
    /\ \E d \in LocateDur, out \in {"box", "nobox", "exception"} :
         /\ out = "box" => Visible(sc_target, app)
         /\ CASE out = "box" ->
                   /\ sc_pc' = "click"
                   /\ elapsed' = elapsed + d
                   /\ UNCHANGED <<attempt, sc_result>>
              [] out = "nobox" ->
                   \* not found: sleep(delay); continue
                   /\ sc_pc' = "head"
                   /\ elapsed' = elapsed + d + Delay
                   /\ attempt' = NextAttempt(attempt)
                   /\ UNCHANGED sc_result
              [] out = "exception" ->
                   \* except Exception, then sleep(delay)
                   IF Caught("Exception")
                   THEN /\ sc_pc' = "head"
                        /\ elapsed' = elapsed + d + Delay
                        /\ attempt' = NextAttempt(attempt)
                        /\ UNCHANGED sc_result
                   ELSE /\ sc_pc' = "done" /\ sc_result' = "Exception"
                        /\ elapsed' = elapsed + d
                        /\ UNCHANGED attempt
         /\ locates' = locates + 1
         /\ lastOut' = out
         /\ allMiss' = (allMiss /\ out = "nobox")
    /\ UIAction
    /\ UNCHANGED <<sc_target, sc_post, sc_ptimeout, sc_retries,
                   mouse_failures, t0, after, clicks, postSeenAt>>
    /\ UNCHANGED <<measVars, app, loadVars, nameVars>>
    /\ UNCHANGED measObs
    /\ UNCHANGED responsive

\* time spent in lines 81-86 when the library call `exc` raises
ExcTicks(exc) ==
    CASE exc = "moveTo" -> 0
      [] exc = "click" -> PreClickTicks
      [] exc = "position" -> ClickTicks

\* lines 76-95 and 97-107 up to the start of the post-condition poll
SC_Click ==
    /\ sc_pc = "click"
    /\ \E a \in Disp \X Disp, performed \in BOOLEAN, delivered \in BOOLEAN,
          exc \in {"none", "moveTo", "click", "position"} :
         \* pag.moveTo raising (line 81) precedes the click; pag.position
         \* raising at line 86 follows it; pag.click raising (line 84) may
         \* have performed the click or not
         /\ exc = "moveTo" => ~performed
         /\ exc \in {"none", "position"} => performed
         /\ delivered => performed
         \* an undisturbed click lands on the matched control; whether the
         \* application reacts to it is the environment's choice
         /\ responsive /\ performed /\ ~Interfered(<<0, 0>>, a) => delivered
         /\ lastOut' = IF exc # "none" THEN "exception"
                        ELSE IF Interfered(<<0, 0>>, a) THEN "interfered"
                        ELSE "clicked"
         /\ clicks' = IF performed THEN clicks + 1 ELSE clicks
         /\ app' = Clicked(sc_target, app, delivered)
         /\ IF exc # "none"
            THEN \* except Exception (line 109), sleep(delay) (line 111);
                 \* `after` of line 86 has not been assigned
                 /\ IF Caught("Exception")
                    THEN /\ sc_pc' = "head"
                         /\ elapsed' = elapsed + ExcTicks(exc) + Delay
                         /\ attempt' = NextAttempt(attempt)
                         /\ UNCHANGED sc_result
                    ELSE /\ sc_pc' = "done" /\ sc_result' = "Exception"
                         /\ elapsed' = elapsed + ExcTicks(exc)
                         /\ UNCHANGED attempt
                 /\ UNCHANGED <<mouse_failures, t0, after>>
            ELSE /\ after' = a
                 /\ IF Interfered(<<0, 0>>, a)
                    THEN \* below the maximum: sleep(delay); continue.  At the
                         \* maximum: MouseInterferenceError is raised inside
                         \* the try block, caught by `except Exception`
                         \* (line 109), and line 111 sleeps before the next
                         \* attempt.
                         /\ mouse_failures' = mouse_failures + 1
                         /\ sc_pc' = "head"
                         /\ elapsed' = elapsed + ClickTicks + Delay
                         /\ attempt' = NextAttempt(attempt)
                         /\ UNCHANGED <<t0, sc_result>>
                    ELSE /\ UNCHANGED <<mouse_failures, attempt>>
                         /\ elapsed' = elapsed + ClickTicks
                         /\ IF sc_post # "none"
                            THEN /\ sc_pc' = "post"
                                 /\ t0' = elapsed + ClickTicks
                                 /\ UNCHANGED sc_result
                            ELSE /\ sc_pc' = "done"
                                 /\ sc_result' = "True"
                                 /\ UNCHANGED t0
    /\ UIAction
    /\ UNCHANGED <<sc_target, sc_post, sc_ptimeout, sc_retries, postSeenAt>>
    /\ UNCHANGED <<measVars, loadVars, nameVars>>
    /\ UNCHANGED <<measObs, locates, allMiss>>
    /\ UNCHANGED responsive

\* lines 99-105: the post-condition poll (109-111 when locateOnScreen raises)
SC_Post ==
    /\ sc_pc = "post"
    /\ IF elapsed - t0 < sc_ptimeout
       THEN /\ \E d \in LocateDur, out \in {"box", "nobox", "exception"} :
                 /\ out = "box" => Visible(sc_post, app)
                 /\ CASE out = "exception" ->
                           IF Caught("Exception")
                           THEN /\ sc_pc' = "head"
                                /\ elapsed' = elapsed + d + Delay
                                /\ attempt' = NextAttempt(attempt)
                                /\ UNCHANGED <<sc_result, postSeenAt>>
                           ELSE /\ sc_pc' = "done"
                                /\ sc_result' = "Exception"
                                /\ elapsed' = elapsed + d
                                /\ UNCHANGED <<attempt, postSeenAt>>
                      [] out # "exception" /\ PostConfirmed(out) ->
                           /\ sc_pc' = "done" /\ sc_result' = "True"
                           /\ postSeenAt' = IF out = "box" THEN elapsed - t0
                                            ELSE postSeenAt
                           /\ elapsed' = elapsed + d
                           /\ UNCHANGED attempt
                      [] OTHER ->
                           /\ elapsed' = elapsed + d + PostPoll
                           /\ UNCHANGED <<sc_pc, sc_result, postSeenAt, attempt>>
                 /\ lastOut' = out
                 /\ events' = IF out = "box"
                               THEN events \cup {<<sc_post \o "_seen", idx>>}
                               ELSE events
            /\ UIAction
       ELSE /\ sc_pc' = "done" /\ sc_result' = "False"
            /\ lastOut' = "timeout"
            /\ UNCHANGED <<elapsed, attempt, postSeenAt, uiFor, events>>
    /\ UNCHANGED <<sc_target, sc_post, sc_ptimeout, sc_retries,
                   mouse_failures, t0, after, clicks>>
    /\ UNCHANGED <<measVars, app, loadVars, nameVars>>
    /\ UNCHANGED <<uqd_win, dwellTicks, main_pc, locates, allMiss>>
    /\ UNCHANGED responsive

\* what is left of a safe_click call once it has returned: its result
ReturnFromSafeClick ==
    /\ sc_pc' = "none"
    /\ attempt' = 0 /\ mouse_failures' = 0 /\ elapsed' = 0 /\ t0' = 0
    /\ after' = <<0, 0>> /\ clicks' = 0 /\ postSeenAt' = -1
    /\ locates' = 0 /\ lastOut' = "none" /\ allMiss' = TRUE
    /\ UNCHANGED <<sc_target, sc_post, sc_ptimeout, sc_retries, sc_result>>

\* ===================================================================
\* measurement
\* ===================================================================
StageCounts == {RequiredStages - 1, RequiredStages, RequiredStages + 1}

\* `if move_ok is False: ... continue`
SkipsNever(move_ok) == FALSE
Skips(move_ok) == move_ok = FALSE

\* a fatal UI failure at combination idx: `return` out of the loop
FatalContinue(i) ==
    /\ pc' = "loop" /\ idx' = i + 1 /\ fatalAt' = i
    /\ UNCHANGED <<stagesLen, hwInit, n, wait_t, moveLog, moveFailed,
                   zeroIssued>>
FatalReturn(i) ==
    /\ pc' = "returned" /\ fatalAt' = i
    /\ UNCHANGED <<stagesLen, hwInit, n, idx, wait_t, moveLog, moveFailed,
                   zeroIssued>>

\* an exception that leaves measurement()
Raise(i) ==
    /\ pc' = "raised" /\ fatalAt' = i
    /\ UNCHANGED <<stagesLen, hwInit, n, idx, wait_t, moveLog, moveFailed,
                   zeroIssued>>

\* `if len(session.stages) != 4`
TooFewStages(k) == k < RequiredStages
WrongStageCount(k) == k # RequiredStages

\* lines 162-165
M_Entry ==
    /\ pc = "entry"
    /\ pc' = IF WrongStageCount(stagesLen) THEN "raised" ELSE "setup"
    /\ UNCHANGED <<stagesLen, hwInit, n, idx, wait_t, moveLog, moveFailed,
                   zeroIssued, fatalAt>>
    /\ UNCHANGED <<app, uiFor, clickVars, loadVars, nameVars>>
    /\ UNCHANGED <<measObs, clickObs>>
    /\ UNCHANGED responsive

\* lines 168-174
M_Setup ==
    /\ pc = "setup"
    /\ hwInit' = TRUE
    /\ pc' = "load"
    /\ UNCHANGED <<stagesLen, n, idx, wait_t, moveLog, moveFailed,
                   zeroIssued, fatalAt>>
    /\ UNCHANGED <<app, uiFor, clickVars, loadVars, nameVars>>
    /\ UNCHANGED <<measObs, clickObs>>
    /\ UNCHANGED responsive

\* lines 176-184: the table is read; an empty table ends the run
M_Load ==
    /\ pc = "load"
    /\ \E k \in 0..MaxCombos :
         /\ n' = k
         /\ pc' = IF k = 0 THEN "returned" ELSE "window"
    /\ UNCHANGED <<stagesLen, hwInit, idx, wait_t, moveLog, moveFailed,
                   zeroIssued, fatalAt>>
    /\ UNCHANGED <<app, uiFor, clickVars, loadVars, nameVars>>
    /\ UNCHANGED <<measObs, clickObs>>
    /\ UNCHANGED responsive

\* lines 192-194: `except Exception: ... return`
WindowFailureIgnored(found) == FALSE
WindowFailureReturns(found) == ~found

\* lines 186-202
M_Window ==
    /\ pc = "window"
    /\ \E found \in BOOLEAN :
         /\ uqd_win' = IF found THEN "active" ELSE "missing"
         /\ IF WindowFailureReturns(found)
            THEN pc' = "returned" /\ UNCHANGED idx
            ELSE pc' = "loop" /\ idx' = 1
    /\ UNCHANGED <<stagesLen, hwInit, n, wait_t, moveLog, moveFailed,
                   zeroIssued, fatalAt>>
    /\ UNCHANGED <<app, uiFor, clickVars, loadVars, nameVars>>
    /\ UNCHANGED <<events, dwellTicks, main_pc, clickObs>>
    /\ UNCHANGED responsive

\* line 204: the for loop takes the next combination or ends
M_Loop ==
    /\ pc = "loop"
    /\ pc' = IF idx > n THEN "zero" ELSE "move"
    /\ UNCHANGED <<stagesLen, hwInit, n, idx, wait_t, moveLog, moveFailed,
                   zeroIssued, fatalAt>>
    /\ UNCHANGED <<app, uiFor, clickVars, loadVars, nameVars>>
    /\ UNCHANGED <<measObs, clickObs>>
    /\ UNCHANGED responsive

\* lines 214-219
M_Move ==
    /\ pc = "move"
    /\ \E move_ok \in BOOLEAN :
         /\ moveLog' = moveLog \cup {idx}
         /\ moveFailed' = IF move_ok THEN moveFailed ELSE moveFailed \cup {idx}
         /\ IF Skips(move_ok)
            THEN pc' = "loop" /\ idx' = idx + 1
            ELSE pc' = "tag" /\ UNCHANGED idx
    /\ UNCHANGED <<stagesLen, hwInit, n, wait_t, zeroIssued, fatalAt>>
    /\ UNCHANGED <<app, uiFor, clickVars, loadVars, nameVars>>
    /\ UNCHANGED <<measObs, clickObs>>
    /\ UNCHANGED responsive

\* lines 221-222: safe_click(csv_file_tag.png, offset_x=200)
M_TagCall ==
    /\ pc = "tag"
    /\ CallSafeClick([target |-> "tag", post |-> "none",
                      ptimeout |-> DefaultPostTimeout], DefaultRetries)
    /\ pc' = "tag_wait"
    /\ UNCHANGED <<stagesLen, hwInit, n, idx, wait_t, moveLog, moveFailed,
                   zeroIssued, fatalAt>>
    /\ UNCHANGED <<app, uiFor, loadVars, nameVars>>
    /\ UNCHANGED measObs
    /\ UNCHANGED responsive

\* lines 222-228
M_TagRet ==
    /\ pc = "tag_wait" /\ sc_pc = "done"
    /\ CASE sc_result = "True" ->
              /\ pc' = "dialog" /\ wait_t' = 0
              /\ UNCHANGED <<stagesLen, hwInit, n, idx, moveLog, moveFailed,
                             zeroIssued, fatalAt>>
         [] sc_result = "False" -> FatalReturn(idx)
         [] OTHER -> Raise(idx)
    /\ ReturnFromSafeClick
    /\ UNCHANGED <<app, uiFor, loadVars, nameVars>>
    /\ UNCHANGED measObs
    /\ UNCHANGED responsive

\* line 231: `if pag.locateOnScreen(save_file_dialog.png): break`
DialogAssumed(out) == TRUE
DialogFound(out) == out = "box"

\* lines 229-235: the time of the poll after one more iteration
DialogClockRestarted(t, d) == d + DialogPoll
DialogClock(t, d) == t + d + DialogPoll

\* lines 229-238: one poll of the save dialog, or the timeout
M_Dialog ==
    /\ pc = "dialog"
    /\ IF wait_t < DialogTimeout
       THEN /\ \E d \in LocateDur, out \in {"box", "nobox", "exception"} :
                 /\ IF DialogFound(out)
                    THEN pc' = "typing" /\ wait_t' = 0
                    ELSE pc' = "dialog" /\ wait_t' = DialogClock(wait_t, d)
                 /\ events' = IF out = "box"
                               THEN events \cup {<<"dialog", idx>>}
                               ELSE events
            /\ UIAction
            /\ UNCHANGED <<stagesLen, hwInit, n, idx, moveLog, moveFailed,
                           zeroIssued, fatalAt>>
       ELSE FatalReturn(idx) /\ UNCHANGED <<uiFor, events>>
    /\ UNCHANGED <<app, clickVars, loadVars, nameVars>>
    /\ UNCHANGED <<uqd_win, dwellTicks, main_pc, clickObs>>
    /\ UNCHANGED responsive

\* lines 240-250: ctrl+a, delete, the file name, tab, enter
M_Typing ==
    /\ pc = "typing"
    /\ pc' = "startcheck"
    /\ UIAction
    /\ events' = events \cup {<<"typed", idx>>}
    /\ UNCHANGED <<stagesLen, hwInit, n, idx, wait_t, moveLog, moveFailed,
                   zeroIssued, fatalAt>>
    /\ UNCHANGED <<app, clickVars, loadVars, nameVars>>
    /\ UNCHANGED <<uqd_win, dwellTicks, main_pc, clickObs>>
    /\ UNCHANGED responsive

\* lines 253-255 (Start) and 277-279 (Stop): the control must be visible;
\* locateOnScreen is called outside any try block
CheckControl(img, next) ==
    /\ \E out \in {"box", "nobox", "exception"} :
         /\ out = "box" => Visible(img, app)
         /\ CASE out = "box" ->
                   /\ pc' = next
                   /\ UNCHANGED <<stagesLen, hwInit, n, idx, wait_t, moveLog,
                                  moveFailed, zeroIssued, fatalAt>>
              [] out = "nobox" -> FatalReturn(idx)
              [] out = "exception" -> Raise(idx)
    /\ UIAction
    /\ UNCHANGED <<app, clickVars, loadVars, nameVars>>
    /\ UNCHANGED <<measObs, clickObs>>

M_StartCheck == pc = "startcheck" /\ CheckControl("start", "startclick")
    /\ UNCHANGED responsive

\* lines 257-261
M_StartCall ==
    /\ pc = "startclick"
    /\ CallSafeClick([target |-> "start", post |-> "stop",
                      ptimeout |-> TogglePostTimeout], DefaultRetries)
    /\ pc' = "start_wait"
    /\ UNCHANGED <<stagesLen, hwInit, n, idx, wait_t, moveLog, moveFailed,
                   zeroIssued, fatalAt>>
    /\ UNCHANGED <<app, uiFor, loadVars, nameVars>>
    /\ UNCHANGED measObs
    /\ UNCHANGED responsive

\* line 269: `t_measure = time()` is taken after the Start click returned,
\* whatever time the click and its confirmation took
DwellClockFromClick(latency) == latency
DwellClock(latency) == 0

\* lines 257-269
M_StartRet ==
    /\ pc = "start_wait" /\ sc_pc = "done"
    /\ CASE sc_result = "True" ->
              /\ pc' = "dwell" /\ wait_t' = DwellClock(elapsed)
              /\ dwellTicks' = 0
              /\ events' = events \cup {<<"dwell", idx>>}
              /\ UNCHANGED <<stagesLen, hwInit, n, idx, moveLog, moveFailed,
                             zeroIssued, fatalAt>>
         [] sc_result = "False" ->
              FatalReturn(idx) /\ UNCHANGED <<dwellTicks, events>>
         [] OTHER -> Raise(idx) /\ UNCHANGED <<dwellTicks, events>>
    /\ ReturnFromSafeClick
    /\ UNCHANGED <<app, uiFor, loadVars, nameVars>>
    /\ UNCHANGED <<uqd_win, main_pc>>
    /\ UNCHANGED responsive

\* line 270: the outcomes of `time() - t_measure <= iteration_time` after
\* t ticks of sleep.  The clock has run for the slept time plus the time
\* the calls took, and the difference is a rounded float, so after exactly
\* iteration_time of sleep the test can come out either way.
DwellTest(t) ==
    IF t < IterationTime THEN {TRUE}
    ELSE IF t = IterationTime THEN {TRUE, FALSE}
    ELSE {FALSE}

\* lines 270-274
M_Dwell ==
    /\ pc = "dwell"
    /\ \E again \in DwellTest(wait_t) :
         IF again
         THEN /\ pc' = "dwell" /\ wait_t' = wait_t + wait_while_running
              /\ dwellTicks' = dwellTicks + wait_while_running
         ELSE pc' = "stopcheck" /\ wait_t' = 0 /\ UNCHANGED dwellTicks
    /\ UNCHANGED <<stagesLen, hwInit, n, idx, moveLog, moveFailed,
                   zeroIssued, fatalAt>>
    /\ UNCHANGED <<app, uiFor, clickVars, loadVars, nameVars>>
    /\ UNCHANGED <<uqd_win, events, main_pc, clickObs>>
    /\ UNCHANGED responsive

M_StopCheck == pc = "stopcheck" /\ CheckControl("stop", "stopclick")
    /\ UNCHANGED responsive

\* lines 281-286
M_StopCall ==
    /\ pc = "stopclick"
    /\ CallSafeClick([target |-> "stop", post |-> "start",
                      ptimeout |-> TogglePostTimeout], DefaultRetries)
    /\ pc' = "stop_wait"
    /\ UNCHANGED <<stagesLen, hwInit, n, idx, wait_t, moveLog, moveFailed,
                   zeroIssued, fatalAt>>
    /\ UNCHANGED <<app, uiFor, loadVars, nameVars>>
    /\ UNCHANGED measObs
    /\ UNCHANGED responsive

\* lines 281-290, then the next iteration of the for loop
M_StopRet ==
    /\ pc = "stop_wait" /\ sc_pc = "done"
    /\ CASE sc_result = "True" ->
              /\ pc' = "loop" /\ idx' = idx + 1
              /\ events' = events \cup {<<"advanced", idx>>}
              /\ UNCHANGED <<stagesLen, hwInit, n, wait_t, moveLog,
                             moveFailed, zeroIssued, fatalAt>>
         [] sc_result = "False" -> FatalReturn(idx) /\ UNCHANGED events
         [] OTHER -> Raise(idx) /\ UNCHANGED events
    /\ ReturnFromSafeClick
    /\ UNCHANGED <<app, uiFor, loadVars, nameVars>>
    /\ UNCHANGED <<uqd_win, dwellTicks, main_pc>>
    /\ UNCHANGED responsive

\* lines 292-299
M_Zero ==
    /\ pc = "zero"
    /\ zeroIssued' = TRUE
    /\ pc' = "done"
    /\ UNCHANGED <<stagesLen, hwInit, n, idx, wait_t, moveLog, moveFailed,
                   fatalAt>>
    /\ UNCHANGED <<app, uiFor, clickVars, loadVars, nameVars>>
    /\ UNCHANGED <<measObs, clickObs>>
    /\ UNCHANGED responsive

ObsIdle ==
    /\ uqd_win = "none" /\ events = {} /\ dwellTicks = 0
    /\ locates = 0 /\ lastOut = "none" /\ allMiss = TRUE

LoadIdle == lines = <<>> /\ n_stages = 0 /\ lineNo = 0 /\ combos = <<>>
NameIdle ==
    /\ table = <<>> /\ nameIdx = 0 /\ names = <<>>
    /\ label = [some |-> FALSE, text |-> <<>>] /\ filename = <<>>

MeasIdle ==
    /\ pc = "off" /\ stagesLen = 0 /\ hwInit = FALSE /\ n = 0 /\ idx = 0
    /\ wait_t = 0 /\ moveLog = {} /\ moveFailed = {} /\ zeroIssued = FALSE
    /\ fatalAt = 0 /\ uiFor = {}

\* ---- the sweep: measurement() called on a session, the application Idle
Init ==
    /\ pc = "entry" /\ stagesLen \in StageCounts /\ hwInit = FALSE
    /\ n = 0 /\ idx = 0 /\ wait_t = 0
    /\ moveLog = {} /\ moveFailed = {} /\ zeroIssued = FALSE /\ fatalAt = 0
    /\ uiFor = {} /\ app = "Idle"
    /\ ClickIdle /\ LoadIdle /\ NameIdle
    /\ ObsIdle /\ main_pc = "measurement"
    /\ responsive = TRUE

\* ---- the entry point (run_experiment_and_process.main, lines 84-92, and
\* the __main__ block of two_qubit_tomography_xps.py, lines 302-311):
\*     session = XPSMotionSession(...); measurement(...); session.close()
\* with no try/finally around the call of measurement().

\* measurement() returned: the next statement is session.close()
Main_Close ==
    /\ main_pc = "measurement" /\ pc \in {"done", "returned"}
    /\ main_pc' = "closed"
    /\ UNCHANGED <<measVars, app, uiFor, clickVars, loadVars, nameVars>>
    /\ UNCHANGED <<uqd_win, events, dwellTicks, clickObs>>
    /\ UNCHANGED responsive

\* measurement() raised: the exception leaves the entry point as well, and
\* the statement after the call is not executed
Main_Propagate ==
    /\ main_pc = "measurement" /\ pc = "raised"
    /\ main_pc' = "crashed"
    /\ UNCHANGED <<measVars, app, uiFor, clickVars, loadVars, nameVars>>
    /\ UNCHANGED <<uqd_win, events, dwellTicks, clickObs>>
    /\ UNCHANGED responsive

Next ==
    \/ M_Entry \/ M_Setup \/ M_Load \/ M_Window \/ M_Loop \/ M_Move
    \/ M_TagCall \/ M_TagRet \/ M_Dialog \/ M_Typing
    \/ M_StartCheck \/ M_StartCall \/ M_StartRet \/ M_Dwell
    \/ M_StopCheck \/ M_StopCall \/ M_StopRet \/ M_Zero
    \/ SC_Entry \/ SC_Head \/ SC_Locate \/ SC_Click \/ SC_Post
    \/ Main_Close \/ Main_Propagate

\* time passes and every sleep returns: a step that can be taken is taken
Fairness == WF_vars(Next)

SpecFair == Init /\ [][Next]_vars /\ Fairness

Spec == Init /\ [][Next]_vars

\* ---- one safe_click call on its own, for every shape of call and budget
InitClick ==
    /\ MeasIdle /\ LoadIdle /\ NameIdle
    /\ ObsIdle /\ main_pc = "off"
    /\ app \in {"Idle", "Collecting"}
    /\ responsive \in BOOLEAN
    /\ \E shape \in CallShapes, r \in 1..MaxRetries :
         /\ sc_pc = "entry"
         /\ sc_target = shape.target /\ sc_post = shape.post
         /\ sc_ptimeout = shape.ptimeout /\ sc_retries = r
         /\ attempt = 0 /\ mouse_failures = 0 /\ elapsed = 0 /\ t0 = 0
         /\ sc_result = "none" /\ after = <<0, 0>> /\ clicks = 0
         /\ postSeenAt = -1

NextClick == SC_Entry \/ SC_Head \/ SC_Locate \/ SC_Click \/ SC_Post

SpecClick == InitClick /\ [][NextClick]_vars

ended == pc \in {"done", "returned", "raised"}

\* ===================================================================
\* load_combinations
\* ===================================================================
\* characters of a table file: a digit, the separator, a blank, the comment
\* marker, a letter, the line end
Alphabet == {"1", ",", " ", "#", "a", "\n"}
Digits == {"1"}
Whitespace == {" ", "\n"}

RECURSIVE StringsUpTo(_)
StringsUpTo(k) ==
    IF k = 0 THEN {<<>>}
    ELSE LET shorter == StringsUpTo(k - 1)
         IN shorter \cup {Append(w, c) : w \in {x \in shorter : Len(x) = k - 1},
                                          c \in Alphabet}
FileSet == StringsUpTo(MaxFileLen)

\* `for line in f`: the lines of the file, each with its line end; a last
\* line without line end is a line too
RECURSIVE FileLines(_)
FileLines(w) ==
    IF w = <<>> THEN <<>>
    ELSE IF \A i \in 1..Len(w) : w[i] # "\n"
         THEN <<w>>
         ELSE LET i == CHOOSE j \in 1..Len(w) :
                           w[j] = "\n" /\ \A m \in 1..(j - 1) : w[m] # "\n"
              IN <<SubSeq(w, 1, i)>> \o FileLines(SubSeq(w, i + 1, Len(w)))

\* str.strip()
RECURSIVE LStrip(_)
LStrip(w) == IF w # <<>> /\ Head(w) \in Whitespace THEN LStrip(Tail(w)) ELSE w
RECURSIVE RStrip(_)
RStrip(w) ==
    IF w # <<>> /\ w[Len(w)] \in Whitespace
    THEN RStrip(SubSeq(w, 1, Len(w) - 1)) ELSE w
Strip(w) == RStrip(LStrip(w))

\* str.split(","): the pieces between the separators, empty pieces kept
RECURSIVE Split(_)
Split(w) ==
    IF \A i \in 1..Len(w) : w[i] # ","
    THEN <<w>>
    ELSE LET i == CHOOSE j \in 1..Len(w) :
                      w[j] = "," /\ \A m \in 1..(j - 1) : w[m] # ","
         IN <<SubSeq(w, 1, i - 1)>> \o Split(SubSeq(w, i + 1, Len(w)))

\* parts = [x.strip() for x in line.strip().split(",")]
Parts(line) == LET raw == Split(Strip(line))
               IN [i \in 1..Len(raw) |-> Strip(raw[i])]

\* float(x) succeeds on a decimal numeral and raises ValueError otherwise
ParsesAsFloat(tok) == tok # <<>> /\ \A i \in 1..Len(tok) : tok[i] \in Digits
RECURSIVE ToFloat(_)
ToFloat(tok) ==
    IF tok = <<>> THEN 0 ELSE 10 * ToFloat(SubSeq(tok, 1, Len(tok) - 1)) + 1

None == [some |-> FALSE, text |-> <<>>]
Some(t) == [some |-> TRUE, text |-> t]

\* `if not line.strip() or line.strip().startswith("#")`
IsBlankOrComment(line) == Strip(line) = <<>> \/ Head(Strip(line)) = "#"

\* `if len(parts) < n_stages`
TooFewOrEqual(parts, N) == Len(parts) <= N
TooFew(parts, N) == Len(parts) < N

\* `label = parts[n_stages] if len(parts) > n_stages else None`
LabelOf(parts, N) == IF Len(parts) > N THEN Some(parts[N + 1]) ELSE None

\* lines 129-143: one iteration of `for line in f` on the next line
LC_Line ==
    /\ pc = "load_combinations"
    /\ lineNo < Len(lines)
    /\ LET line == lines[lineNo + 1]
       IN
         /\ lineNo' = lineNo + 1
         /\ IF IsBlankOrComment(line)
            THEN UNCHANGED combos
            ELSE LET parts == Parts(line)
                 IN IF TooFew(parts, n_stages)
                    THEN UNCHANGED combos
                    ELSE IF \E i \in 1..n_stages : ~ParsesAsFloat(parts[i])
                         THEN UNCHANGED combos
                         ELSE combos' = Append(combos,
                                  [positions |-> [i \in 1..n_stages |->
                                                     ToFloat(parts[i])],
                                   label |-> LabelOf(parts, n_stages)])
    /\ UNCHANGED <<lines, n_stages, measVars, app, uiFor, clickVars, nameVars>>
    /\ UNCHANGED <<measObs, clickObs>>
    /\ UNCHANGED responsive

\* line 144: the end of the file, `return combos`
LC_Return ==
    /\ pc = "load_combinations"
    /\ lineNo = Len(lines)
    /\ pc' = "loaded"
    /\ UNCHANGED <<stagesLen, hwInit, n, idx, wait_t, moveLog, moveFailed,
                   zeroIssued, fatalAt>>
    /\ UNCHANGED <<app, uiFor, clickVars, loadVars, nameVars>>
    /\ UNCHANGED <<measObs, clickObs>>
    /\ UNCHANGED responsive

InitLoad ==
    /\ pc = "load_combinations" /\ stagesLen = 0 /\ hwInit = FALSE
    /\ n = 0 /\ idx = 0 /\ wait_t = 0
    /\ moveLog = {} /\ moveFailed = {} /\ zeroIssued = FALSE /\ fatalAt = 0
    /\ uiFor = {} /\ app = "Idle"
    /\ ClickIdle /\ NameIdle
    /\ ObsIdle /\ main_pc = "off" /\ responsive = TRUE
    /\ \E content \in FileSet : lines = FileLines(content)
    /\ lineNo = 0 /\ combos = <<>>
    /\ n_stages \in 0..MaxStages

NextLoad == LC_Line \/ LC_Return

SpecLoad == InitLoad /\ [][NextLoad]_vars

\* ===================================================================
\* artifact names (measurement, lines 204-212)
\* ===================================================================
DigitChars == <<"0", "1", "2", "3", "4", "5", "6", "7", "8", "9">>

\* str(i) for i >= 0
RECURSIVE Decimal(_)
Decimal(i) ==
    IF i < 10 THEN <<DigitChars[i + 1]>>
    ELSE Append(Decimal(i \div 10), DigitChars[(i % 10) + 1])

\* f"{idx:03d}": zero-padded to a minimum width of 3
RECURSIVE ZeroPad(_, _)
ZeroPad(w, width) == IF Len(w) >= width THEN w ELSE ZeroPad(<<"0">> \o w, width)
PadOrdinalZeroBased(i) == ZeroPad(Decimal(i - 1), 3)
PadOrdinal(i) == ZeroPad(Decimal(i), 3)

\* str.replace(old, new) for one-character old and new
Replace(w, old, new) == [i \in 1..Len(w) |-> IF w[i] = old THEN new ELSE w[i]]

\* label.replace(" ", "_").replace(".", "-")
CleanLabel(text) == Replace(Replace(text, " ", "_"), ".", "-")

\* lines 206-211
FileName(i, lab) ==
    IF lab.some /\ lab.text # <<>> /\ Strip(lab.text) # <<>>
    THEN CleanLabel(lab.text) \o <<".", "c", "s", "v">>
    ELSE <<"c", "o", "m", "b", "o">> \o PadOrdinal(i) \o <<".", "c", "s", "v">>

\* labels a table can carry: the label column of a parsed line is a stripped
\* token, possibly empty
LabelTexts ==
    { <<"a", " ", "b">>, <<"a", "_", "b">>, <<"a", ".", "b">>,
      <<"c", "o", "m", "b", "o", "0", "0", "2">>, <<>> }
LabelOpts == {None} \cup {Some(t) : t \in LabelTexts}

RECURSIVE TablesUpTo(_)
TablesUpTo(k) ==
    IF k = 0 THEN {<<>>}
    ELSE LET shorter == TablesUpTo(k - 1)
         IN shorter \cup {Append(t, l) : t \in {x \in shorter : Len(x) = k - 1},
                                          l \in LabelOpts}

\* the parsed tables of the naming runs (measurement returns on an empty one)
Tables == TablesUpTo(MaxTable) \ {<<>>}

\* lines 204-212: the loop takes combination nameIdx and names its artifact
N_Name ==
    /\ pc = "name"
    /\ nameIdx <= Len(table)
    /\ label' = table[nameIdx]
    /\ filename' = FileName(nameIdx, table[nameIdx])
    /\ names' = Append(names, FileName(nameIdx, table[nameIdx]))
    /\ pc' = "body"
    /\ UNCHANGED <<table, nameIdx>>
    /\ UNCHANGED <<stagesLen, hwInit, n, idx, wait_t, moveLog, moveFailed,
                   zeroIssued, fatalAt>>
    /\ UNCHANGED <<app, uiFor, clickVars, loadVars>>
    /\ UNCHANGED <<measObs, clickObs>>
    /\ UNCHANGED responsive

\* lines 214-290 seen from the naming: the combination is skipped on a move
\* failure or driven through the UI, and the loop goes on to the next one
N_Body ==
    /\ pc = "body"
    /\ \E move_ok \in BOOLEAN :
         \* `continue` (line 218) and the end of the body both advance idx
         /\ nameIdx' = nameIdx + 1
         /\ pc' = "name"
    /\ UNCHANGED <<table, names, label, filename>>
    /\ UNCHANGED <<stagesLen, hwInit, n, idx, wait_t, moveLog, moveFailed,
                   zeroIssued, fatalAt>>
    /\ UNCHANGED <<app, uiFor, clickVars, loadVars>>
    /\ UNCHANGED <<measObs, clickObs>>
    /\ UNCHANGED responsive

InitName ==
    /\ pc = "name" /\ stagesLen = 0 /\ hwInit = FALSE
    /\ n = 0 /\ idx = 0 /\ wait_t = 0
    /\ moveLog = {} /\ moveFailed = {} /\ zeroIssued = FALSE /\ fatalAt = 0
    /\ uiFor = {} /\ app = "Idle"
    /\ ClickIdle /\ LoadIdle
    /\ ObsIdle /\ main_pc = "off" /\ responsive = TRUE
    /\ table \in Tables /\ nameIdx = 1 /\ names = <<>>
    /\ label = None /\ filename = <<>>

NextName == N_Name \/ N_Body

SpecName == InitName /\ [][NextName]_vars

\* ---- the same loop over a table of up to MaxOrdinal combinations, read
\* one combination at a time and without the record of earlier names
\* lines 204-212
O_Name ==
    /\ pc = "name"
    /\ nameIdx <= MaxOrdinal
    /\ \E l \in LabelOpts :
         /\ label' = l
         /\ filename' = FileName(nameIdx, l)
    /\ pc' = "body"
    /\ UNCHANGED <<table, nameIdx, names>>
    /\ UNCHANGED <<stagesLen, hwInit, n, idx, wait_t, moveLog, moveFailed,
                   zeroIssued, fatalAt>>
    /\ UNCHANGED <<app, uiFor, clickVars, loadVars>>
    /\ UNCHANGED <<measObs, clickObs>>
    /\ UNCHANGED responsive

\* lines 214-290 seen from the naming
O_Body ==
    /\ pc = "body"
    /\ \E move_ok \in BOOLEAN :
         \* `continue` (line 218) and the end of the body both advance idx
         /\ nameIdx' = nameIdx + 1
         /\ pc' = "name"
    /\ UNCHANGED <<table, names, label, filename>>
    /\ UNCHANGED <<stagesLen, hwInit, n, idx, wait_t, moveLog, moveFailed,
                   zeroIssued, fatalAt>>
    /\ UNCHANGED <<app, uiFor, clickVars, loadVars>>
    /\ UNCHANGED <<measObs, clickObs>>
    /\ UNCHANGED responsive

InitOrdinal ==
    /\ pc = "name" /\ stagesLen = 0 /\ hwInit = FALSE
    /\ n = 0 /\ idx = 0 /\ wait_t = 0
    /\ moveLog = {} /\ moveFailed = {} /\ zeroIssued = FALSE /\ fatalAt = 0
    /\ uiFor = {} /\ app = "Idle"
    /\ ClickIdle /\ LoadIdle
    /\ ObsIdle /\ main_pc = "off" /\ responsive = TRUE
    /\ table = <<>> /\ nameIdx = 1 /\ names = <<>>
    /\ label = None /\ filename = <<>>

NextOrdinal == O_Name \/ O_Body

SpecOrdinal == InitOrdinal /\ [][NextOrdinal]_vars

\* ===================================================================
\* Properties of the sweep and of safe_click
\* ===================================================================
loopReached == idx >= 1
WithinTolerance(p) == Abs(p[1]) <= Tolerance /\ Abs(p[2]) <= Tolerance

\* C1: every run of measurement() that reached the per-combination loop and
\* has ended by a return (loop completed or aborted by a fatal UI failure)
\* has issued the final move_motors(0, 0, 0, 0).
C1_FinalZeroIssued ==
    (pc \in {"done", "returned"} /\ loopReached) => zeroIssued

\* C2: whenever the sweep has ended (normal completion, fatal return, or a
\* fault raised out of safe_click) the external application is Idle.
C2_IdleWhenEnded == ended => app = "Idle"

\* C3: a combination whose move_motors returned False gets no UI action, and
\* the failed move is followed by the next loop iteration (never by an
\* abort); once the combinations are exhausted the loop is followed by the
\* final move-to-zero.
C3_MoveFailureSkips ==
    /\ [](moveFailed \cap uiFor = {})
    /\ [][(pc = "move" /\ idx \in moveFailed')
            => (pc' = "loop" /\ idx' = idx + 1 /\ fatalAt' = 0
                /\ uiFor' = uiFor)]_vars
    /\ [][pc = "loop" => pc' = (IF idx > n THEN "zero" ELSE "move")]_vars
    /\ [][pc = "zero" => (zeroIssued' /\ pc' = "done")]_vars

\* the first and the last of three moves failed, the second combination was
\* driven through the UI, and the sweep ended with the move to zero
C3_Witness ==
    /\ pc = "done" /\ zeroIssued
    /\ n \in moveFailed
    /\ \E k \in moveFailed : k + 1 \in uiFor

\* C4: safe_click returns True only after a click in that call whose pointer
\* position after it is within the 5-pixel tolerance on both axes and, when
\* a post_confirm_image was supplied, after a poll begun before
\* post_confirm_timeout elapsed has located that template.
C4_TrueOnlyIfConfirmed ==
    sc_result = "True" =>
        /\ clicks >= 1
        /\ WithinTolerance(after)
        /\ sc_post # "none" => (postSeenAt >= 0 /\ postSeenAt < sc_ptimeout)

\* True after an earlier interference and after polls that did not match
C4_Witness ==
    /\ sc_result = "True" /\ sc_post # "none"
    /\ postSeenAt > 0 /\ clicks >= 2

\* C5: once mouse_failures has reached max_mouse_tries the call is over and
\* its outcome is the interference fault, not a return value.
C5_InterferenceAborts ==
    mouse_failures >= max_mouse_tries =>
        (sc_pc = "done" /\ sc_result = "MouseInterferenceError")

\* C6: a click whose pointer displacement exceeds the tolerance and that
\* leaves mouse_failures below max_mouse_tries advances attempt by one and
\* goes back to the loop head without a post-condition poll and without a
\* result; from the loop head the next attempt starts while budget remains
\* and the wall-clock ceiling has not been exceeded.
C6_InterferenceConsumesOneRetry ==
    /\ [][(sc_pc = "click" /\ clicks' = clicks + 1
           /\ ~WithinTolerance(after')
           /\ mouse_failures' < max_mouse_tries)
            => (attempt' = attempt + 1 /\ sc_pc' = "head"
                /\ sc_result' = "none" /\ postSeenAt' = postSeenAt)]_vars
    /\ [][(sc_pc = "head" /\ attempt <= sc_retries /\ elapsed <= Ceiling)
            => sc_pc' = "locate"]_vars

\* the third attempt is under way after two interference events
C6_Witness ==
    /\ mouse_failures = 2 /\ attempt = 3 /\ sc_pc = "locate"
    /\ ~WithinTolerance(after)

\* C7: after a fatal failure at combination fatalAt the run is over, and no
\* move and no UI action was issued for any later combination.
C7_NothingAfterFatal ==
    fatalAt > 0 =>
        /\ pc \in {"returned", "raised"}
        /\ idx = fatalAt
        /\ \A j \in moveLog \cup uiFor : j <= fatalAt

\* the sweep was aborted at a combination that is not the last one
C7_Witness ==
    /\ pc = "returned" /\ fatalAt > 0 /\ fatalAt < n
    /\ fatalAt \in uiFor

\* ===================================================================
\* Properties of load_combinations and of the artifact names
\* ===================================================================
\* a line that yields an entry: not blank, not a comment, at least N
\* trimmed tokens, the first N of them numerals
ValidLine(line, N) ==
    LET t == Strip(line)
        toks == Parts(line)
    IN /\ t # <<>>
       /\ t[1] # "#"
       /\ Len(toks) >= N
       /\ \A i \in 1..N : ParsesAsFloat(toks[i])

\* the k-th smallest element of a set of naturals
Kth(S, k) == CHOOSE i \in S : Cardinality({j \in S : j <= i}) = k

\* C8: the entries of load_combinations are, in file order, exactly the
\* valid lines among the lines read so far; an entry's label is the token at
\* position N when the line has one and None otherwise.
C8_LoadCombinations ==
    LET valid == {i \in 1..lineNo : ValidLine(lines[i], n_stages)}
    IN /\ Len(combos) = Cardinality(valid)
       /\ \A k \in 1..Len(combos) :
            LET toks == Parts(lines[Kth(valid, k)])
            IN /\ combos[k].positions =
                      [j \in 1..n_stages |-> ToFloat(toks[j])]
               /\ combos[k].label =
                      (IF Len(toks) >= n_stages + 1
                       THEN Some(toks[n_stages + 1]) ELSE None)

\* a rejected line, then a line with one position and a label, at the end
\* of the file
C8_Witness ==
    /\ pc = "loaded" /\ n_stages = 1 /\ Len(lines) = 2
    /\ Strip(lines[1]) # <<>> /\ ~ValidLine(lines[1], 1)
    /\ Len(combos) = 1 /\ combos[1].label = Some(<<"a">>)

\* value of a numeral
RECURSIVE NumeralValue(_)
NumeralValue(w) ==
    IF w = <<>> THEN 0
    ELSE 10 * NumeralValue(SubSeq(w, 1, Len(w) - 1))
         + (CHOOSE d \in 0..9 : DigitChars[d + 1] = w[Len(w)])

IsNumeral(w) == \A i \in 1..Len(w) : \E d \in 1..10 : DigitChars[d] = w[i]

\* out is text with each space replaced by '_' and each period by '-'
IsSanitized(text, out) ==
    /\ Len(out) = Len(text)
    /\ \A i \in 1..Len(text) :
         out[i] = (CASE text[i] = " " -> "_"
                     [] text[i] = "." -> "-"
                     [] OTHER -> text[i])

HasCsvSuffix(nm) ==
    Len(nm) >= 4 /\ SubSeq(nm, Len(nm) - 3, Len(nm)) = <<".", "c", "s", "v">>
Stem(nm) == SubSeq(nm, 1, Len(nm) - 4)

\* the name of combination k is 'combo' + a numeral of value k + '.csv'
IsComboName(nm, k) ==
    /\ HasCsvSuffix(nm)
    /\ Len(Stem(nm)) > 5
    /\ SubSeq(nm, 1, 5) = <<"c", "o", "m", "b", "o">>
    /\ IsNumeral(SubSeq(Stem(nm), 6, Len(Stem(nm))))
    /\ NumeralValue(SubSeq(Stem(nm), 6, Len(Stem(nm)))) = k
OrdinalDigits(nm) == Len(Stem(nm)) - 5

Labelled(l) == l.some /\ l.text # <<>>

\* C9 as stated: a labelled combination is named by its sanitized label, an
\* unlabeled one by 'combo' + exactly three digits giving its ordinal.
C9_ThreeDigitOrdinal ==
    pc = "body" =>
        IF Labelled(label)
        THEN HasCsvSuffix(filename) /\ IsSanitized(label.text, Stem(filename))
        ELSE IsComboName(filename, nameIdx) /\ OrdinalDigits(filename) = 3

\* C9: a labelled combination is named by its sanitized label; an unlabeled
\* one by 'combo' + its 1-based ordinal among the parsed combinations,
\* zero-padded to at least three digits (exactly three up to 999, no
\* leading zero beyond that).
C9_ArtifactName ==
    pc = "body" =>
        IF Labelled(label)
        THEN HasCsvSuffix(filename) /\ IsSanitized(label.text, Stem(filename))
        ELSE /\ IsComboName(filename, nameIdx)
             /\ OrdinalDigits(filename) >= 3
             /\ OrdinalDigits(filename) > 3 => filename[6] # "0"

\* the thousandth combination has no label and has been named
C9_Witness ==
    /\ pc = "body" /\ nameIdx = 1000
    /\ ~Labelled(label)
    /\ OrdinalDigits(filename) = 4

NamedByLabel(k) == Labelled(table[k])

\* C10: when the non-empty labels of the table are pairwise distinct, the
\* artifact names of any two combinations of the sweep differ.
C10_DistinctNames ==
    (\A i, j \in 1..Len(table) :
        (i # j /\ NamedByLabel(i) /\ NamedByLabel(j))
            => table[i].text # table[j].text)
    => (\A i, j \in 1..Len(names) : i # j => names[i] # names[j])

\* ===================================================================
\* Properties of the set-up, the ordering and the waits of the sweep
\* ===================================================================
\* C11: with a session that does not expose exactly 4 stages, measurement()
\* ends with the configuration error, and no hardware initialisation, no
\* move (to a combination or to zero) and no UI action is ever issued.
C11_StageCountChecked ==
    stagesLen # RequiredStages =>
        /\ pc \in {"entry", "raised"}
        /\ ~hwInit /\ moveLog = {} /\ ~zeroIssued /\ uiFor = {}
        /\ uqd_win = "none" /\ sc_pc = "none"

\* the run on a session of five stages has ended with the error
C11_Witness == pc = "raised" /\ stagesLen = RequiredStages + 1 /\ ~hwInit

\* C12: when the window of the application could not be located or
\* activated, measurement() has returned and no move to a combination and
\* no UI action was issued.
C12_NoCombinationWithoutWindow ==
    uqd_win = "missing" =>
        /\ pc = "returned"
        /\ moveLog = {} /\ uiFor = {} /\ sc_pc = "none" /\ events = {}

\* the window was missing for a table of several combinations
C12_Witness == uqd_win = "missing" /\ pc = "returned" /\ n >= 2


\* C13: for every combination k the stage move for k has succeeded before
\* any UI action for k, the save dialog has been observed before any
\* filename keystroke for k, and a move or UI action for k+1 is preceded by
\* the observation of the Start template after the Stop click for k (or by
\* the failure of the move for k, which skips k).
C13_OrderedSteps ==
    /\ \A k \in uiFor : k \in moveLog /\ k \notin moveFailed
    /\ \A k \in 1..n : <<"typed", k>> \in events => <<"dialog", k>> \in events
    /\ \A k \in moveLog \cup uiFor :
         k > 1 => \/ k - 1 \in moveFailed
                  \/ <<"start_seen", k - 1>> \in events

C13_Witness ==
    \E k \in 1..n :
        /\ <<"typed", k>> \in events
        /\ <<"start_seen", k>> \in events
        /\ <<"typed", k + 1>> \in events

\* C14: the dwell for combination k is entered only after the Stop template
\* was observed following the Start click for k, and the sweep advances past
\* k only after the Start template was observed following the Stop click.
C14_ConfirmedBeforeForward ==
    /\ \A k \in 1..n : <<"dwell", k>> \in events => <<"stop_seen", k>> \in events
    /\ \A k \in 1..n :
         <<"advanced", k>> \in events => <<"start_seen", k>> \in events
    /\ pc = "dwell" => <<"stop_seen", idx>> \in events
    /\ \A k \in 1..n : k < idx /\ k \in uiFor => <<"advanced", k>> \in events

C14_Witness ==
    /\ pc = "dwell" /\ idx = 2
    /\ <<"advanced", 1>> \in events /\ <<"stop_seen", 2>> \in events



\* Properties of the retry budget, the ceiling and the exception handling
\* of safe_click

\* C15: one call searches for its target template at most `retries` times;
\* a search without a match waits the inter-retry delay and consumes exactly
\* one retry, without a click; when every attempt of the budget ended
\* without a match the call returns False and has not clicked.
C15_RetryBudget ==
    [][ /\ locates' <= sc_retries'
        /\ (sc_pc = "locate" /\ lastOut' = "nobox") =>
               /\ attempt' = attempt + 1
               /\ elapsed' >= elapsed + Delay
               /\ sc_pc' = "head"
               /\ clicks' = clicks
        /\ (sc_pc' = "done" /\ allMiss' /\ locates' = sc_retries') =>
               /\ sc_result' = "False"
               /\ clicks' = 0 ]_vars

C15_Witness ==
    /\ sc_pc = "done" /\ allMiss /\ locates = sc_retries
    /\ sc_retries = DefaultRetries /\ sc_result = "False" /\ clicks = 0

\* C16: once more than the wall-clock ceiling has elapsed since the call
\* started, the call starts no further search, click or post-condition
\* poll.
C16_CeilingEnforced ==
    (\/ sc_pc \in {"locate", "click"}
     \/ (sc_pc = "post" /\ elapsed - t0 < sc_ptimeout))
        => elapsed <= Ceiling

\* C17: an exception raised by a template search or by the click is not
\* propagated: the attempt ends, exactly one retry is consumed, and the
\* call goes on to the next attempt or returns False when the budget is
\* exhausted.
C17_ExceptionConsumesRetry ==
    [][ /\ (sc_pc \in {"locate", "click", "post"} /\ lastOut' = "exception") =>
               /\ sc_pc' = "head"
               /\ attempt' = attempt + 1
               /\ sc_result' = "none"
        /\ (sc_pc = "head" /\ lastOut = "exception" /\ attempt > sc_retries) =>
               /\ sc_pc' = "done"
               /\ sc_result' = "False"
        /\ (sc_pc = "head" /\ lastOut = "exception" /\ attempt <= sc_retries
               /\ elapsed <= Ceiling) =>
               sc_pc' = "locate"
        /\ sc_result' \in {"none", "True", "False", "MouseInterferenceError"}
      ]_vars

C17_Witness ==
    /\ sc_pc = "done" /\ lastOut = "exception" /\ sc_result = "False"
    /\ attempt = sc_retries + 1 /\ sc_retries >= 2



\* Properties of the dwell, of termination and of the release of the session

\* C18: the Stop check and the Stop click are issued only after at least
\* the acquisition duration has elapsed since the dwell began, and the dwell
\* exceeds that duration by at most one polling increment, whatever time the
\* Start click and its confirmation took.
C18_DwellLength ==
    pc \in {"stopcheck", "stopclick", "stop_wait"} =>
        /\ dwellTicks >= IterationTime
        /\ dwellTicks <= IterationTime + wait_while_running

C18_Witness ==
    /\ pc = "stop_wait" /\ idx = 2 /\ dwellTicks >= IterationTime
    /\ <<"dwell", 2>> \in events



\* C19: every sweep terminates: measurement() eventually returns or aborts,
\* whatever the screen does, so no safe_click call, save-dialog poll or
\* dwell inside it goes on for ever.
C19_Terminates == <>ended

C19_Witness ==
    /\ pc = "done" /\ n >= 2 /\ fatalAt = 0
    /\ <<"advanced", n>> \in events

\* C20: once the entry point has left measurement(), in whatever way,
\* session.close() has been called.
C20_SessionReleased ==
    (ended /\ main_pc # "measurement") => main_pc = "closed"


\* C21: one call performs at most one click that is not flagged as
\* interference, and after such a click it only polls for the
\* post-condition and returns True or False: it neither searches for the
\* target again nor clicks it again.
C21_ReturnsAfterCleanClick ==
    clicks - mouse_failures >= 1 =>
        /\ clicks - mouse_failures = 1
        /\ sc_pc \in {"post", "done"}
        /\ sc_pc = "done" => sc_result \in {"True", "False"}


====
